---- MODULE Spec2Model ----
(***************************************************************************)
(* Chunk streaming pipeline of neuroglancer-mini.                          *)
(*                                                                         *)
(* Part 1 (Spec): one SliceViewChunkSource, its fetchChunk calls and the   *)
(* owning-side chunk queue that serves them.                               *)
(* Part 2 (SpecLayers): a SliceView, its render layers and the visible-    *)
(* layer update; (SpecSources): a render layer's registration of visible   *)
(* sources (addSource, removeSource, visibleSourcesList).                  *)
(* Part 3 (SpecDownload): the download of one chunk through                *)
(* cancellableFetchOk and decodeRawChunk, and the failure classification;  *)
(* (SpecDelay): the retry delays of pickDelay; (SpecProjection): the       *)
(* handler of the projection-parameters-changed message.                   *)
(***************************************************************************)
EXTENDS Integers, Sequences, FiniteSets, TLC

\* ------------------------------------------------------------------ bounds
NumCalls == 2          \* fetchChunk call slots that may be pending at once
ConcurrencyBound == 1  \* configured bound on fetches in flight
MaxUpdates == 2        \* runs of updateVisibleLayersNow
MaxSourceRefs == 3     \* references handed out per chunk source
MaxBytes == 2          \* length of a file in self.fileTree
RandomSteps == 4       \* values of Math.random() told apart
MaxMessages == 4       \* projection-parameters messages handled
MaxCounterpartRefs == 2 \* cross-context references to one chunk source
MaxRedirects == 12      \* redirects one registry get is followed through

\* util/http_request
maxAttempts == 32
minDelayMilliseconds == 500
maxDelayMilliseconds == 10000

Calls == 1 .. NumCalls
\* chunkGridPosition.join() of the two grid positions [0,0,0] and [1,0,0]
Keys == {"0,0,0", "1,0,0"}
Tiers == {0, 1}
Absent == "absent"

VARIABLES
  \* --- SliceViewChunkSource (rendering context)
  chunks,            \* this.chunks: key -> state of the frontend chunk, or Absent
  chunkRequesters,   \* this.chunkRequesters: [defined, map: key -> waiters]
  calls,             \* fetchChunk invocations: position and promise state
  refCount,          \* RefCounted.refCount of the source
  wasDisposed,       \* RefCounted.wasDisposed of the source
  extRefs,           \* references held by the consumer that created the source
  \* --- owning context: chunk queue manager
  bstate,            \* key -> lifecycle state of the current Chunk object
  tier,              \* key -> priority tier of the queued request
  queue,             \* queued requests, least recently requested first
  backoff,           \* key -> a retry delay is still running
  inflight           \* key -> number of fetches in flight

fetchVars == <<chunks, chunkRequesters, calls, refCount, wasDisposed, extRefs,
               bstate, tier, queue, backoff, inflight>>

VARIABLES
  \* --- LayerManager and its render layers
  layerState,            \* layer -> "pending" | "ready" | "removed"
  transform,             \* renderLayer.transform.value
  layerRefCount,         \* RefCounted.refCount of the render layer
  sourceRefCount,        \* RefCounted.refCount of each chunk source
  visibleSources,        \* renderLayer.visibleSources: source -> info
  visibleSourcesList_,   \* renderLayer.visibleSourcesList_
  \* --- SliceView
  visibleLayers,         \* this.visibleLayers: layer -> layerInfo
  visibleLayerList,      \* this.visibleLayerList
  rpcSent,               \* messages invoked by the latest update
  curUpdateGeneration,   \* Date.now() of the latest update, as a logical clock
  updatePending,         \* the debounced updateVisibleLayers is scheduled
  renderingStale,        \* this.renderingStale
  visibleSourcesStale,   \* this.visibleSourcesStale
  sliceViewWasDisposed   \* RefCounted.wasDisposed of the slice view

layerVars == <<layerState, transform, layerRefCount,
               sourceRefCount, visibleSources, visibleSourcesList_,
               visibleLayers, visibleLayerList, rpcSent, curUpdateGeneration,
               updatePending, renderingStale, visibleSourcesStale, sliceViewWasDisposed>>

VARIABLES
  \* --- download of one chunk (owning context; util/http_request, raw decoder)
  fileTree,          \* self.fileTree: name -> file entry
  req,               \* the running cancellableFetchOk / decodeRawChunk call
  token,             \* the caller's cancellationToken is cancelled
  chunkData,         \* chunk.data of the VolumeChunk being downloaded
  texture,           \* texture data set by UncompressedVolumeChunk.setTextureData
  classified         \* latest failure handed to isNotFoundError, and its answer

downloadVars == <<fileTree, req, token, chunkData, texture, classified>>

VARIABLES
  picked             \* latest pickDelay call: its inputs and the delay returned

delayVars == <<picked>>

VARIABLES
  \* --- SharedProjectionParametersBackend (owning context)
  ppValue,           \* obj.value
  ppOldValue,        \* obj.oldValue
  ppNotified,        \* the calls obj.changed.dispatch has made
  ppLast             \* the message delivered last, and whether it was replayed

projectionVars == <<ppValue, ppOldValue, ppNotified, ppLast>>

VARIABLES
  \* --- a chunk source as a shared object, and the references to it that
  \* --- travel in messages
  cpLocalRefs,       \* source -> RefCounted.refCount held in the rendering context
  cpRefs,            \* source -> cross-context references outstanding
  cpDisposed,        \* source -> the object has been disposed
  cpDisposals,       \* source -> times the object was disposed
  cpNotified         \* source -> disposal notifications sent to the owner

counterpartVars == <<cpLocalRefs, cpRefs, cpDisposed, cpDisposals, cpNotified>>

VARIABLES
  \* --- SliceView.updateRendering
  navigationValid,   \* this.navigationState.valid
  width,             \* projectionParameters.value.width
  height,            \* projectionParameters.value.height
  renderLog,         \* what the latest drawing updateRendering did, in order
  lastEvent          \* "viewChanged", or the outcome of the latest updateRendering

renderVars == <<navigationValid, width, height, renderLog, lastEvent>>

VARIABLES
  \* --- the addSource / removeSource calls made on each render layer
  addCalls,          \* per layer and source: the addSource calls so far
  removeCalls        \* per layer and source: the removeSource calls so far

callVars == <<addCalls, removeCalls>>

VARIABLES
  \* --- a MessageList handed to getVolumetricTransformedSources again and again
  messageList,       \* the messages the list holds
  returned           \* whether a call was made, and what the latest one returned

messageVars == <<messageList, returned>>

VARIABLES
  \* --- DataSourceProviderRegistry.get
  getPc,             \* "idle", "running", "returned" or "thrown"
  url,               \* let url: the URL handed to the provider
  redirectLog,       \* const redirectLog = new Set<string>()
  followed,          \* the redirect targets followed by the running call, in order
  thrown             \* the error the call ended with, "none" if none

registryVars == <<getPc, url, redirectLog, followed, thrown>>

utilVars == <<downloadVars, delayVars, projectionVars, counterpartVars, renderVars, callVars, messageVars, registryVars>>

vars == <<fetchVars, layerVars, utilVars>>

\* ------------------------------------------------------------ pure helpers
Range(s) == {s[p] : p \in 1 .. Len(s)}

RemoveAt(s, p) == SubSeq(s, 1, p - 1) \o SubSeq(s, p + 1, Len(s))

\* Array.prototype.indexOf, 1-based; 0 stands for the -1 of a missing element
IndexOf(s, x) ==
  IF x \in Range(s) THEN CHOOSE p \in 1 .. Len(s) : s[p] = x /\ \A q \in 1 .. p - 1 : s[q] # x
  ELSE 0

\* entry.splice(entry.indexOf(x), 1): splice(-1, 1) removes the last element
SpliceOut(s, x) ==
  IF Len(s) = 0 THEN s
  ELSE IF IndexOf(s, x) = 0 THEN SubSeq(s, 1, Len(s) - 1)
  ELSE RemoveAt(s, IndexOf(s, x))

RemoveAll(s, x) == SelectSeq(s, LAMBDA y : y # x)

\* existingChunk.state <= ChunkState.SYSTEM_MEMORY
InMemory(state) == state \in {"GPU_MEMORY", "SYSTEM_MEMORY"}

\* a constructor that leaves the state of the base class: not yet in memory
SliceViewChunkStateUnset == "NEW"

\* new SliceViewChunk(source, x): this.state = ChunkState.SYSTEM_MEMORY
SliceViewChunkState == "SYSTEM_MEMORY"

\* RefCounted
AddRef(rc) == rc + 1
DisposeRef(rc) == rc - 1

IdleCall == [pc |-> "idle", key |-> "0,0,0", rpc |-> "none", promise |-> "pending",
             xform |-> "none"]

SourceAlive == refCount > 0 /\ ~wasDisposed

Waiting(k) == {i \in Calls : calls[i].pc = "waiting" /\ calls[i].key = k}
\* requests the owning side has received and not yet answered
Interested(k) == {i \in Waiting(k) : calls[i].rpc = "recv"}
InFlight == inflight["0,0,0"] + inflight["1,0,0"]

EmptyMap == [kk \in {} |-> <<>>]

\* ------------------------------------------------- SliceViewChunkSource
\* the early return taken without looking at the chunk map
ExistingChunkUsableNoCheck(k) == TRUE

\* existingChunk !== undefined && existingChunk.state <= ChunkState.SYSTEM_MEMORY
ExistingChunkUsable(k) == chunks[k] # Absent /\ InMemory(chunks[k])

\* an entry that is overwritten by each new requester
PushRequesterReplace(entry, i) == <<i>>

\* entry!.push(requester)
PushRequester(entry, i) == Append(entry, i)

\* the entry of chunkRequesters for key k ([] when there is none)
EntryOf(k) ==
  IF k \in DOMAIN chunkRequesters.map THEN chunkRequesters.map[k] ELSE <<>>

\* a registration that puts the new requester in front of the entry
RegisteredInFront(i, k) ==
  [defined |-> TRUE,
   map |-> [kk \in DOMAIN chunkRequesters.map \cup {k} |->
              IF kk = k THEN <<i>> \o EntryOf(k) ELSE chunkRequesters.map[kk]]]

\* chunkRequesters after the requester of call i has been registered under k
Registered(i, k) ==
  [defined |-> TRUE,
   map |-> [kk \in DOMAIN chunkRequesters.map \cup {k} |->
              IF kk = k THEN PushRequester(EntryOf(k), i) ELSE chunkRequesters.map[kk]]]

\* a finally block that leaves the requester in its entry
UnregisteredKeepsWaiter(i, k) == chunkRequesters

\* chunkRequesters after the finally block of call i (key k)
Unregistered(i, k) ==
  LET entry == SpliceOut(EntryOf(k), i)
      keep == {kk \in DOMAIN chunkRequesters.map : kk # k \/ Len(entry) # 0}
      map == [kk \in keep |-> IF kk = k THEN entry ELSE chunkRequesters.map[kk]]
  IN IF keep = {} THEN [defined |-> FALSE, map |-> EmptyMap]
     ELSE [defined |-> TRUE, map |-> map]

\* a finally block that forgets the dispose
FinallyDisposeMissing(rc) == rc

\* this.dispose() in the finally block
FinallyDispose(rc) == DisposeRef(rc)

\* the owning side's chunks once the source object itself is disposed
SourceGone(now) == now = 0

\* the call slot a new fetchChunk invocation occupies: the lowest free one
FreeSlot(i) ==
  /\ calls[i].pc # "waiting"
  /\ \A j \in Calls : j < i => calls[j].pc = "waiting"

\* requestChunk at the owning side, on the request message for key k with tier t
RequestChunk(k, t) ==
  CASE bstate[k] \in {"NONE", "DISPOSED"} ->
         /\ bstate' = [bstate EXCEPT ![k] = "QUEUED"]
         /\ tier' = [tier EXCEPT ![k] = t]
         /\ queue' = Append(queue, k)
    [] bstate[k] = "QUEUED" ->
         /\ tier' = [tier EXCEPT ![k] = t]
         /\ queue' = Append(RemoveAll(queue, k), k)
         /\ UNCHANGED bstate
    [] OTHER -> UNCHANGED <<bstate, tier, queue>>

\* what the owning side answers at once: nothing yet, the resident chunk, or
\* the permanent failure it recorded
RequestAnswer(k) ==
  IF bstate[k] = "FAILED_PERMANENT" THEN "err"
  ELSE IF InMemory(bstate[k]) THEN "ok"
  ELSE "recv"

\* fetchChunk(chunkGridPosition, transform, cancellationToken), up to its first
\* await; the request message of promiseInvoke reaches the owning side in the
\* same step
FetchChunk(i, k, t) ==
  /\ SourceAlive
  /\ FreeSlot(i)
  /\ IF ExistingChunkUsable(k)
     THEN /\ calls' = [calls EXCEPT ![i] =
                 [IdleCall EXCEPT !.pc = "resolved", !.key = k, !.xform = chunks[k]]]
          /\ UNCHANGED <<chunkRequesters, refCount, bstate, tier, queue>>
     ELSE /\ refCount' = AddRef(refCount)
          /\ chunkRequesters' = Registered(i, k)
          /\ calls' = [calls EXCEPT ![i] =
                 [pc |-> "waiting", key |-> k, rpc |-> RequestAnswer(k),
                  promise |-> "pending", xform |-> "none"]]
          /\ RequestChunk(k, t)
  /\ UNCHANGED <<chunks, wasDisposed, extRefs, backoff, inflight>>
  /\ UNCHANGED <<layerVars, utilVars>>

\* the call may settle: the request was rejected, or it was answered and the
\* requester has been invoked
CanSettle(i) ==
  /\ calls[i].pc = "waiting"
  /\ \/ calls[i].rpc \in {"err", "cancel"}
     \/ calls[i].rpc = "ok" /\ calls[i].promise = "resolved"

\* an outcome that resolves whatever promiseInvoke did
SettledAlwaysResolves(c) ==
  [IdleCall EXCEPT !.pc = "resolved", !.key = c.key, !.xform = c.xform]

\* the outcome of a call: the promise fetchChunk returned resolves with the
\* value of transform, or rejects when promiseInvoke threw
Settled(c) ==
  [IdleCall EXCEPT !.pc = IF c.rpc = "ok" THEN "resolved" ELSE "rejected",
                   !.key = c.key, !.xform = c.xform]

\* fetchChunk from the await to its return or throw, through the finally block
FetchChunkSettle(i) ==
  LET k == calls[i].key
      rc == FinallyDispose(refCount)
  IN /\ CanSettle(i)
     /\ calls' = [calls EXCEPT ![i] = Settled(calls[i])]
     /\ chunkRequesters' = Unregistered(i, k)
     /\ refCount' = rc
     /\ wasDisposed' = (wasDisposed \/ SourceGone(rc))
     /\ IF SourceGone(rc)
        THEN /\ chunks' = [kk \in Keys |-> Absent]
             /\ bstate' = [kk \in Keys |-> IF bstate[kk] = "NONE" THEN "NONE" ELSE "DISPOSED"]
             /\ queue' = <<>>
             /\ backoff' = [kk \in Keys |-> FALSE]
             /\ inflight' = [kk \in Keys |-> 0]
        ELSE UNCHANGED <<chunks, bstate, queue, backoff, inflight>>
     /\ UNCHANGED <<extRefs, tier>>
  /\ UNCHANGED <<layerVars, utilVars>>

\* the consumer that created the source releases its reference: source.dispose()
ReleaseSource ==
  LET rc == DisposeRef(refCount)
  IN /\ extRefs > 0
     /\ extRefs' = extRefs - 1
     /\ refCount' = rc
     /\ wasDisposed' = (wasDisposed \/ SourceGone(rc))
     /\ IF SourceGone(rc)
        THEN /\ chunks' = [kk \in Keys |-> Absent]
             /\ bstate' = [kk \in Keys |-> IF bstate[kk] = "NONE" THEN "NONE" ELSE "DISPOSED"]
             /\ queue' = <<>>
             /\ backoff' = [kk \in Keys |-> FALSE]
             /\ inflight' = [kk \in Keys |-> 0]
        ELSE UNCHANGED <<chunks, bstate, queue, backoff, inflight>>
     /\ UNCHANGED <<chunkRequesters, calls, tier>>
  /\ UNCHANGED <<layerVars, utilVars>>

\* ------------------------------------------------- owning side: chunk queue
\* an admission test that is off by one
CanAdmitOffByOne == InFlight <= ConcurrencyBound

\* below the concurrency bound
CanAdmit == InFlight < ConcurrencyBound

Eligible(p) == ~backoff[queue[p]]

\* an ordering that looks at recency alone
BeatsRecencyOnly(q, p) == q > p

\* the request at queue position q is ahead of the one at position p
Beats(q, p) ==
  \/ tier[queue[q]] > tier[queue[p]]
  \/ tier[queue[q]] = tier[queue[p]] /\ q > p

\* admission: the highest-priority eligible request starts its fetch
Admit(p) ==
  LET k == queue[p]
  IN /\ CanAdmit
     /\ Eligible(p)
     /\ \A q \in 1 .. Len(queue) : Eligible(q) => ~Beats(q, p)
     /\ queue' = RemoveAt(queue, p)
     /\ bstate' = [bstate EXCEPT ![k] = "DOWNLOADING"]
     /\ inflight' = [inflight EXCEPT ![k] = @ + 1]
     /\ UNCHANGED <<chunks, chunkRequesters, calls, refCount, wasDisposed, extRefs,
                    tier, backoff>>
  /\ UNCHANGED <<layerVars, utilVars>>

\* the requesters of key k are invoked in turn: resolve(transform(chunk))
Notified(k, state) ==
  [i \in Calls |->
     IF i \in Range(EntryOf(k))
     THEN [calls[i] EXCEPT !.promise = "resolved",
                           !.xform = state,
                           !.rpc = IF @ = "recv" THEN "ok" ELSE @]
     ELSE IF calls[i].pc = "waiting" /\ calls[i].key = k /\ calls[i].rpc = "recv"
          THEN [calls[i] EXCEPT !.rpc = "ok"]
          ELSE calls[i]]

\* fetch and decode succeeded: the chunk reaches the rendering context
FetchSuccess(k) ==
  /\ inflight[k] > 0
  /\ inflight' = [inflight EXCEPT ![k] = @ - 1]
  /\ bstate' = [bstate EXCEPT ![k] = "SYSTEM_MEMORY"]
  /\ chunks' = [chunks EXCEPT ![k] = SliceViewChunkState]
  /\ calls' = Notified(k, SliceViewChunkState)
  /\ UNCHANGED <<chunkRequesters, refCount, wasDisposed, extRefs, tier, queue, backoff>>
  /\ UNCHANGED <<layerVars, utilVars>>

\* transient error: back to the queue, a retry delay starts
FetchTransient(k) ==
  /\ inflight[k] > 0
  /\ inflight' = [inflight EXCEPT ![k] = @ - 1]
  /\ bstate' = [bstate EXCEPT ![k] = "QUEUED"]
  /\ queue' = Append(queue, k)
  /\ backoff' = [backoff EXCEPT ![k] = TRUE]
  /\ UNCHANGED <<chunks, chunkRequesters, calls, refCount, wasDisposed, extRefs, tier>>
  /\ UNCHANGED <<layerVars, utilVars>>

BackoffElapsed(k) ==
  /\ backoff[k]
  /\ backoff' = [backoff EXCEPT ![k] = FALSE]
  /\ UNCHANGED <<chunks, chunkRequesters, calls, refCount, wasDisposed, extRefs,
                 bstate, tier, queue, inflight>>
  /\ UNCHANGED <<layerVars, utilVars>>

\* permanent error: every request received for the chunk is rejected
FetchPermanent(k) ==
  /\ inflight[k] > 0
  /\ inflight' = [inflight EXCEPT ![k] = @ - 1]
  /\ bstate' = [bstate EXCEPT ![k] = "FAILED_PERMANENT"]
  /\ calls' = [i \in Calls |->
       IF i \in Interested(k) THEN [calls[i] EXCEPT !.rpc = "err"] ELSE calls[i]]
  /\ UNCHANGED <<chunks, chunkRequesters, refCount, wasDisposed, extRefs, tier,
                 queue, backoff>>
  /\ UNCHANGED <<layerVars, utilVars>>

\* the cancellation token of call i fires; a chunk nobody else waits for is withdrawn
Cancel(i) ==
  LET k == calls[i].key
      last == Interested(k) = {i}
              /\ bstate[k] \in {"QUEUED", "DOWNLOADING"}
  IN /\ calls[i].pc = "waiting" /\ calls[i].rpc = "recv"
     /\ calls' = [calls EXCEPT ![i].rpc = "cancel"]
     /\ IF last
        THEN /\ bstate' = [bstate EXCEPT ![k] = "DISPOSED"]
             /\ queue' = RemoveAll(queue, k)
             /\ inflight' = [inflight EXCEPT ![k] = 0]
             /\ backoff' = [backoff EXCEPT ![k] = FALSE]
        ELSE UNCHANGED <<bstate, queue, inflight, backoff>>
     /\ UNCHANGED <<chunks, chunkRequesters, refCount, wasDisposed, extRefs, tier>>
  /\ UNCHANGED <<layerVars, utilVars>>

\* the render layer uploads a resident chunk
CopyToGPU(k) ==
  /\ chunks[k] = "SYSTEM_MEMORY"
  /\ chunks' = [chunks EXCEPT ![k] = "GPU_MEMORY"]
  /\ bstate' = [bstate EXCEPT ![k] = "GPU_MEMORY"]
  /\ UNCHANGED <<chunkRequesters, calls, refCount, wasDisposed, extRefs, tier,
                 queue, backoff, inflight>>
  /\ UNCHANGED <<layerVars, utilVars>>

\* explicit eviction of a chunk no request waits for
Evict(k) ==
  /\ bstate[k] \in {"SYSTEM_MEMORY", "GPU_MEMORY", "FAILED_PERMANENT"}
  /\ Interested(k) = {}
  /\ bstate' = [bstate EXCEPT ![k] = "DISPOSED"]
  /\ chunks' = [chunks EXCEPT ![k] = Absent]
  /\ UNCHANGED <<chunkRequesters, calls, refCount, wasDisposed, extRefs, tier,
                 queue, backoff, inflight>>
  /\ UNCHANGED <<layerVars, utilVars>>

InitFetch ==
  /\ chunks = [k \in Keys |-> Absent]
  /\ chunkRequesters = [defined |-> FALSE, map |-> EmptyMap]
  /\ calls = [i \in Calls |-> IdleCall]
  /\ refCount = 1
  /\ wasDisposed = FALSE
  /\ extRefs = 1
  /\ bstate = [k \in Keys |-> "NONE"]
  /\ tier = [k \in Keys |-> 0]
  /\ queue = <<>>
  /\ backoff = [k \in Keys |-> FALSE]
  /\ inflight = [k \in Keys |-> 0]

NextFetch ==
  \/ \E i \in Calls, k \in Keys, t \in Tiers : FetchChunk(i, k, t)
  \/ \E i \in Calls : FetchChunkSettle(i)
  \/ ReleaseSource
  \/ \E p \in 1 .. Len(queue) : Admit(p)
  \/ \E k \in Keys : FetchSuccess(k)
  \/ \E k \in Keys : FetchTransient(k)
  \/ \E k \in Keys : BackoffElapsed(k)
  \/ \E k \in Keys : FetchPermanent(k)
  \/ \E i \in Calls : Cancel(i)
  \/ \E k \in Keys : CopyToGPU(k)
  \/ \E k \in Keys : Evict(k)

\* fetchChunk calls and the ways they complete
NextRequesters ==
  \/ \E i \in Calls, k \in Keys, t \in Tiers : FetchChunk(i, k, t)
  \/ \E i \in Calls : FetchChunkSettle(i)
  \/ \E p \in 1 .. Len(queue) : Admit(p)
  \/ \E k \in Keys : FetchSuccess(k)
  \/ \E k \in Keys : FetchPermanent(k)
  \/ \E i \in Calls : Cancel(i)
  \/ \E k \in Keys : Evict(k)

\* ------------------------------------------- Part 2: slice view and layers
\* the render layers of the layer manager, in its order
ManagedLayers == <<"image1", "image2", "other">>
Layers == Range(ManagedLayers)
Sources == {"s1", "s2"}

\* renderLayer instanceof SliceViewRenderLayer
IsSliceViewRenderLayer(l) == l \in {"image1", "image2"}

\* layer.getSources(options): the chunk sources of the layer's scales
LayerSources(l) == IF l = "image1" THEN <<"s1">> ELSE <<"s1", "s2">>

\* spec.chunkDataSize[chunkDim] of the channel dimension
ChunkDataSize(s) == 1

\* chunkTransform.chunkToLayerTransformDet
ChunkToLayerTransformDet(s) == IF s = "s1" THEN 1 ELSE 8

ChunkTransform(s) == [chunkToLayerTransformDet |-> ChunkToLayerTransformDet(s)]

\* RenderLayerTransformOrError: an error, or a transform with its channelSpaceShape
TransformValues ==
  {[error |-> FALSE, channelSpaceShape |-> 1],
   [error |-> FALSE, channelSpaceShape |-> 2],
   [error |-> TRUE, channelSpaceShape |-> 0]}

InitialTransform == [error |-> FALSE, channelSpaceShape |-> 1]

\* this.layerManager.readyRenderLayers()
ReadyRenderLayers == SelectSeq(ManagedLayers, LAMBDA l : layerState[l] = "ready")

\* visibleSources.set(source, {source, refCount: 1, chunkTransform}) or ++refCount
AddSource(v, s, chunkTransform) ==
  IF s \in DOMAIN v.visibleSources
  THEN [v EXCEPT !.visibleSources[s] =
          [refCount |-> @.refCount + 1, chunkTransform |-> chunkTransform]]
  ELSE [visibleSources |->
          [x \in DOMAIN v.visibleSources \cup {s} |->
             IF x = s THEN [refCount |-> 1, chunkTransform |-> chunkTransform]
             ELSE v.visibleSources[x]],
        visibleSourcesList_ |-> <<>>]

\* a removeSource that deletes the entry whatever its refCount
RemoveSourceFromDeletes(v, s) ==
  [visibleSources |->
     [x \in DOMAIN v.visibleSources \ {s} |-> v.visibleSources[x]],
   visibleSourcesList_ |-> <<>>]

\* --info.refCount, or visibleSources.delete(source)
RemoveSourceFrom(v, s) ==
  IF v.visibleSources[s].refCount # 1
  THEN [v EXCEPT !.visibleSources[s].refCount = @ - 1]
  ELSE [visibleSources |->
          [x \in DOMAIN v.visibleSources \ {s} |-> v.visibleSources[x]],
        visibleSourcesList_ |-> <<>>]

\* the entries of visibleSources sorted by chunkToLayerTransformDet
SortedByDet(m) ==
  CHOOSE q \in [1 .. Cardinality(DOMAIN m) -> DOMAIN m] :
    /\ \A a, b \in DOMAIN q : a # b => q[a] # q[b]
    /\ \A a, b \in DOMAIN q : a < b =>
         m[q[a]].chunkTransform.chunkToLayerTransformDet
           <= m[q[b]].chunkTransform.chunkToLayerTransformDet

\* getSources hands out one reference per chunk source
GetSources(rc, srcs) ==
  [s \in Sources |-> IF s \in Range(srcs) THEN AddRef(rc[s]) ELSE rc[s]]

\* a catch block that releases nothing
DisposeSourcesMissing(rc, srcs) == rc

\* catch: source.dispose() for every source obtained
DisposeSources(rc, srcs) ==
  [s \in Sources |-> IF s \in Range(srcs) THEN DisposeRef(rc[s]) ELSE rc[s]]

\* chunkDataSize[chunkDim] !== channelSpaceShape[channelDim]
ChannelExtentMismatch(t, s) == ChunkDataSize(s) # t.channelSpaceShape

\* a computation that looks at neither transform.error nor the channel extents
GetVolumetricTransformedSourcesUnchecked(t, srcs, rc) ==
  [allSources |-> srcs, messages |-> <<>>, refs |-> GetSources(rc, srcs)]

\* getVolumetricTransformedSources(...): the sources, the messages left in the
\* message list, and the reference counts of the chunk sources afterwards
GetVolumetricTransformedSources(t, srcs, rc) ==
  IF t.error
  THEN [allSources |-> <<>>, messages |-> <<"transform.error">>, refs |-> rc]
  ELSE IF \E p \in 1 .. Len(srcs) : ChannelExtentMismatch(t, srcs[p])
  THEN [allSources |-> <<>>, messages |-> <<"Cannot render">>,
        refs |-> DisposeSources(GetSources(rc, srcs), srcs)]
  ELSE [allSources |-> srcs, messages |-> <<>>, refs |-> GetSources(rc, srcs)]

RECURSIVE AddSources(_, _)
AddSources(v, srcs) ==
  IF srcs = <<>> THEN v
  ELSE AddSources(AddSource(v, Head(srcs), ChunkTransform(Head(srcs))), Tail(srcs))

\* SliceView.getTransformedSources(layer, messages)
GetTransformedSources(l, v, rc) ==
  LET g == GetVolumetricTransformedSources(transform[l], LayerSources(l), rc)
  IN  [allSources |-> g.allSources, messages |-> g.messages, refs |-> g.refs,
       view |-> AddSources(v, g.allSources)]

\* visibleLayers.set(renderLayer, layerInfo)
MapSet(m, l, info) == [x \in DOMAIN m \cup {l} |-> IF x = l THEN info ELSE m[x]]

\* the loop over readyRenderLayers() of updateVisibleLayersNow
RECURSIVE UpdateLoop(_, _)
UpdateLoop(todo, st) ==
  IF todo = <<>> THEN st
  ELSE
    LET l == Head(todo)
        g == GetTransformedSources(l,
               [visibleSources |-> st.visibleSources[l],
                visibleSourcesList_ |-> st.visibleSourcesList_[l]],
               st.sourceRefCount)
        layerInfo == [allSources |-> g.allSources, messages |-> g.messages,
                      transformGeneration |-> transform[l],
                      lastSeenGeneration |-> curUpdateGeneration + 1]
    IN  IF ~IsSliceViewRenderLayer(l) THEN UpdateLoop(Tail(todo), st)
        ELSE UpdateLoop(Tail(todo),
               [visibleLayerList |-> Append(st.visibleLayerList, l),
                visibleLayers |-> MapSet(st.visibleLayers, l, layerInfo),
                layerRefCount |-> [st.layerRefCount EXCEPT ![l] = AddRef(@)],
                sourceRefCount |-> g.refs,
                visibleSources |->
                  [st.visibleSources EXCEPT ![l] = g.view.visibleSources],
                visibleSourcesList_ |->
                  [st.visibleSourcesList_ EXCEPT ![l] = g.view.visibleSourcesList_],
                rpcSent |-> Append(st.rpcSent,
                  [id |-> "SLICEVIEW_ADD_VISIBLE_LAYER", layerId |-> l,
                   sources |-> g.allSources]),
                changed |-> TRUE])

\* the state updateVisibleLayersNow leaves behind
Updated ==
  UpdateLoop(ReadyRenderLayers,
    [visibleLayerList |-> <<>>, visibleLayers |-> visibleLayers,
     layerRefCount |-> layerRefCount, sourceRefCount |-> sourceRefCount,
     visibleSources |-> visibleSources,
     visibleSourcesList_ |-> visibleSourcesList_,
     rpcSent |-> <<>>, changed |-> FALSE])

ApplyUpdate(st) ==
  /\ visibleLayerList' = st.visibleLayerList
  /\ visibleLayers' = st.visibleLayers
  /\ layerRefCount' = st.layerRefCount
  /\ sourceRefCount' = st.sourceRefCount
  /\ visibleSources' = st.visibleSources
  /\ visibleSourcesList_' = st.visibleSourcesList_
  /\ rpcSent' = st.rpcSent

\* the debounced updateVisibleLayers fires
UpdateVisibleLayersNow ==
  /\ updatePending
  /\ ~sliceViewWasDisposed
  /\ curUpdateGeneration < MaxUpdates
  /\ curUpdateGeneration' = curUpdateGeneration + 1
  /\ updatePending' = FALSE
  /\ ApplyUpdate(Updated)
  /\ visibleSourcesStale' = (visibleSourcesStale \/ Updated.changed)
  /\ renderingStale' = TRUE
  /\ UNCHANGED <<layerState, transform, sliceViewWasDisposed>>
  /\ UNCHANGED <<fetchVars, utilVars>>

\* layerManager.layersChanged schedules the update while the view is alive
Scheduled == updatePending \/ ~sliceViewWasDisposed

LayerReady(l) ==
  /\ layerState[l] = "pending"
  /\ layerState' = [layerState EXCEPT ![l] = "ready"]
  /\ updatePending' = Scheduled
  /\ UNCHANGED <<transform, layerRefCount, sourceRefCount,
                 visibleSources, visibleSourcesList_, visibleLayers,
                 visibleLayerList, rpcSent, renderingStale,
                 visibleSourcesStale, sliceViewWasDisposed>>
  /\ UNCHANGED curUpdateGeneration
  /\ UNCHANGED <<fetchVars, utilVars>>

\* the layer leaves the layer manager, which drops its reference
RemoveLayer(l) ==
  /\ layerState[l] \in {"pending", "ready"}
  /\ layerState' = [layerState EXCEPT ![l] = "removed"]
  /\ layerRefCount' = [layerRefCount EXCEPT ![l] = DisposeRef(@)]
  /\ updatePending' = Scheduled
  /\ UNCHANGED <<transform, sourceRefCount, visibleSources,
                 visibleSourcesList_, visibleLayers, visibleLayerList, rpcSent,
                 renderingStale, visibleSourcesStale, sliceViewWasDisposed>>
  /\ UNCHANGED curUpdateGeneration
  /\ UNCHANGED <<fetchVars, utilVars>>

\* renderLayer.transform changes; a bound layer schedules the update
SetTransform(l, t) ==
  /\ IsSliceViewRenderLayer(l)
  /\ layerState[l] # "removed"
  /\ t # transform[l]
  /\ transform' = [transform EXCEPT ![l] = t]
  /\ updatePending' =
       (updatePending \/ (l \in DOMAIN visibleLayers /\ ~sliceViewWasDisposed))
  /\ UNCHANGED <<layerState, layerRefCount, sourceRefCount, visibleSources,
                 visibleSourcesList_, visibleLayers, visibleLayerList, rpcSent,
                 renderingStale, visibleSourcesStale, sliceViewWasDisposed>>
  /\ UNCHANGED curUpdateGeneration
  /\ UNCHANGED <<fetchVars, utilVars>>

\* sliceView.getTransformedSources(layer, messages) for one layer
GetTransformedSourcesOf(l) ==
  /\ IsSliceViewRenderLayer(l)
  /\ \A s \in Range(LayerSources(l)) : sourceRefCount[s] < MaxSourceRefs
  /\ LET g == GetTransformedSources(l,
                [visibleSources |-> visibleSources[l],
                 visibleSourcesList_ |-> visibleSourcesList_[l]],
                sourceRefCount)
     IN  /\ sourceRefCount' = g.refs
         /\ visibleSources' = [visibleSources EXCEPT ![l] = g.view.visibleSources]
         /\ visibleSourcesList_' =
              [visibleSourcesList_ EXCEPT ![l] = g.view.visibleSourcesList_]
  /\ UNCHANGED <<layerState, transform, layerRefCount, visibleLayers,
                 visibleLayerList, rpcSent, curUpdateGeneration, updatePending,
                 renderingStale, visibleSourcesStale, sliceViewWasDisposed>>
  /\ UNCHANGED <<fetchVars, utilVars>>

\* the chunk transforms a layer transform can give a source
ChunkTransforms == {[chunkToLayerTransformDet |-> d] : d \in {1, 8}}

\* renderLayer.addSource(source, chunkTransform)
AddSourceCall(l, s, chunkTransform) ==
  /\ IsSliceViewRenderLayer(l)
  /\ s \in Range(LayerSources(l))
  /\ s \in DOMAIN visibleSources[l] => visibleSources[l][s].refCount < MaxSourceRefs
  /\ LET v == AddSource([visibleSources |-> visibleSources[l],
                         visibleSourcesList_ |-> visibleSourcesList_[l]],
                        s, chunkTransform)
     IN  /\ visibleSources' = [visibleSources EXCEPT ![l] = v.visibleSources]
         /\ visibleSourcesList_' =
              [visibleSourcesList_ EXCEPT ![l] = v.visibleSourcesList_]
  /\ UNCHANGED <<layerState, transform, layerRefCount,
                 sourceRefCount, visibleLayers, visibleLayerList, rpcSent,
                 updatePending, renderingStale, visibleSourcesStale,
                 sliceViewWasDisposed>>
  /\ UNCHANGED curUpdateGeneration
  /\ UNCHANGED <<fetchVars, utilVars>>

\* renderLayer.removeSource(source)
RemoveSource(l, s) ==
  /\ s \in DOMAIN visibleSources[l]
  /\ LET v == RemoveSourceFrom([visibleSources |-> visibleSources[l],
                                visibleSourcesList_ |-> visibleSourcesList_[l]], s)
     IN  /\ visibleSources' = [visibleSources EXCEPT ![l] = v.visibleSources]
         /\ visibleSourcesList_' =
              [visibleSourcesList_ EXCEPT ![l] = v.visibleSourcesList_]
  /\ UNCHANGED <<layerState, transform, layerRefCount,
                 sourceRefCount, visibleLayers, visibleLayerList, rpcSent,
                 updatePending, renderingStale, visibleSourcesStale,
                 sliceViewWasDisposed>>
  /\ UNCHANGED curUpdateGeneration
  /\ UNCHANGED <<fetchVars, utilVars>>

\* get visibleSourcesList(): rebuilds the cached list when it is invalid
GetVisibleSourcesList(l) ==
  /\ Len(visibleSourcesList_[l]) = 0
  /\ DOMAIN visibleSources[l] # {}
  /\ visibleSourcesList_' =
       [visibleSourcesList_ EXCEPT ![l] = SortedByDet(visibleSources[l])]
  /\ UNCHANGED <<layerState, transform, layerRefCount,
                 sourceRefCount, visibleSources, visibleLayers,
                 visibleLayerList, rpcSent, updatePending, renderingStale,
                 visibleSourcesStale, sliceViewWasDisposed>>
  /\ UNCHANGED curUpdateGeneration
  /\ UNCHANGED <<fetchVars, utilVars>>

\* sliceView.dispose(): runs the registered disposers, cancels the debounce
DisposeSliceView ==
  /\ ~sliceViewWasDisposed
  /\ sliceViewWasDisposed' = TRUE
  /\ updatePending' = FALSE
  /\ UNCHANGED <<layerState, transform, layerRefCount,
                 sourceRefCount, visibleSources, visibleSourcesList_,
                 visibleLayers, visibleLayerList, rpcSent, renderingStale,
                 visibleSourcesStale>>
  /\ UNCHANGED curUpdateGeneration
  /\ UNCHANGED <<fetchVars, utilVars>>

InitLayers ==
  /\ layerState = [l \in Layers |-> "pending"]
  /\ transform = [l \in Layers |-> InitialTransform]
  /\ layerRefCount = [l \in Layers |-> 1]
  /\ sourceRefCount = [s \in Sources |-> 0]
  /\ visibleSources = [l \in Layers |-> EmptyMap]
  /\ visibleSourcesList_ = [l \in Layers |-> <<>>]
  /\ visibleLayers = EmptyMap
  /\ visibleLayerList = <<>>
  /\ rpcSent = <<>>
  /\ curUpdateGeneration = 0
  /\ updatePending = TRUE
  /\ renderingStale = TRUE
  /\ visibleSourcesStale = TRUE
  /\ sliceViewWasDisposed = FALSE

NextLayers ==
  \/ UpdateVisibleLayersNow
  \/ \E l \in Layers : LayerReady(l)
  \/ \E l \in Layers : RemoveLayer(l)
  \/ \E l \in Layers, t \in TransformValues : SetTransform(l, t)
  \/ DisposeSliceView

NextSources ==
  \/ \E l \in Layers : GetTransformedSourcesOf(l)
  \/ \E l \in Layers, s \in Sources, c \in ChunkTransforms : AddSourceCall(l, s, c)
  \/ \E l \in Layers, s \in Sources : RemoveSource(l, s)
  \/ \E l \in Layers : GetVisibleSourcesList(l)

\* ======================================================================
\* Part 3: download of one chunk: cancellableFetchOk, fetchOk, getFile,
\* HttpError and isNotFoundError (util/http_request), decodeRawChunk and
\* UncompressedVolumeChunk.setTextureData.
\* ======================================================================
\* request URLs as the parts of their pathname
Inputs == {<<"data", "a">>, <<"data", "b">>}
\* the names the loaded directory may hold; "b" is never loaded
FileNames == {"a"}
Byte == {1, 2}
ByteSeqs == UNION {[1 .. n -> Byte] : n \in 0 .. MaxBytes}
DataTypes == {"UINT8", "UINT16"}
Endiannesses == {"little", "big"}
\* util/endian ENDIANNESS: the byte order of the platform
ENDIANNESS == "little"

NoData == [present |-> FALSE, bytes |-> <<>>]
Data(b) == [present |-> TRUE, bytes |-> b]
NoError == [kind |-> "none", status |-> -1]

\* new HttpError(url, status, statusText)
HttpError(status) == [kind |-> "HttpError", status |-> status]

\* an error that is not an HttpError: "TypeError", "DOMException", "Error"
OtherError(kind) == [kind |-> kind, status |-> -1]

\* HttpError.fromResponse(response)
FromResponse(status) == HttpError(status)

\* HttpError.fromRequestError(input, error)
FromRequestError(error) ==
  IF error.kind = "TypeError" THEN HttpError(0) ELSE error

IsNotFoundErrorNoNetwork(e) ==
  IF e.kind # "HttpError" THEN FALSE ELSE e.status = 403 \/ e.status = 404

\* isNotFoundError(e)
IsNotFoundError(e) ==
  IF e.kind # "HttpError" THEN FALSE
  ELSE e.status = 0 \/ e.status = 403 \/ e.status = 404

\* getFile(input, fileTree): the first path part is dropped, the rest is
\* looked up in the tree; a missing entry is undefined
GetFile(input, tree) ==
  LET parts == Tail(input)
  IN  IF Len(parts) = 1 /\ parts[1] \in DOMAIN tree /\ tree[parts[1]].present
      THEN tree[parts[1]]
      ELSE NoData

FetchOkFailureRetries(r) == [r EXCEPT !.pc = "fetchOk"]

\* fetchOk, result === undefined: throw HttpError(url, 404, "File not found")
FetchOkFailure(r) == [r EXCEPT !.pc = "thrown", !.error = HttpError(404)]

IdleReq ==
  [pc |-> "idle", input |-> <<"data", "a">>, dataType |-> "UINT8",
   endianness |-> ENDIANNESS, response |-> NoData, attempts |-> 0,
   error |-> NoError]

\* cancellableFetchOk(input, transformResponse) is called for a chunk of a
\* source with the given data type; it takes no cancellation token
CancellableFetchOk(input, dt, en) ==
  /\ req.pc = "idle"
  /\ req' = [IdleReq EXCEPT !.pc = "fetchOk", !.input = input,
                            !.dataType = dt, !.endianness = en]
  /\ UNCHANGED <<fileTree, token, chunkData, texture, classified>>
  /\ UNCHANGED <<fetchVars, layerVars, delayVars, projectionVars, counterpartVars, renderVars, callVars, messageVars, registryVars>>

\* fetchOk: await getFile(...), the one transport call of the request
FetchOk ==
  /\ req.pc = "fetchOk"
  /\ req.attempts <= maxAttempts
  /\ LET result == GetFile(req.input, fileTree)
         r == [req EXCEPT !.attempts = @ + 1]
     IN  req' = IF ~result.present
                THEN FetchOkFailure(r)
                ELSE [r EXCEPT !.pc = "transform", !.response = result]
  /\ UNCHANGED <<fileTree, token, chunkData, texture, classified>>
  /\ UNCHANGED <<fetchVars, layerVars, delayVars, projectionVars, counterpartVars, renderVars, callVars, messageVars, registryVars>>

\* await transformResponse(response) with responseArrayBuffer: the file is
\* read into an ArrayBuffer, or the read is rejected by the platform
TransformResponse(ok) ==
  /\ req.pc = "transform"
  /\ req' = IF ok THEN [req EXCEPT !.pc = "decode"]
            ELSE [req EXCEPT !.pc = "thrown", !.error = OtherError("DOMException")]
  /\ UNCHANGED <<fileTree, token, chunkData, texture, classified>>
  /\ UNCHANGED <<fetchVars, layerVars, delayVars, projectionVars, counterpartVars, renderVars, callVars, messageVars, registryVars>>

\* vector.prod(chunk.chunkDataSize) for chunks of one element
NumElements == 1

DATA_TYPE_BYTES(dt) == IF dt = "UINT8" THEN 1 ELSE 2

\* convertEndian(data, bytesPerElement, endianness): the bytes of each
\* element are reversed
ConvertEndian(b, n) ==
  [p \in 1 .. Len(b) |-> b[((p - 1) \div n) * n + (n - ((p - 1) % n))]]

DecodeRawChunkNoLengthCheck(dt, response, en) ==
  [ok |-> TRUE,
   data |-> IF en # ENDIANNESS THEN ConvertEndian(response, DATA_TYPE_BYTES(dt))
            ELSE response]

\* decodeRawChunk(chunk, cancellationToken, response, endianness): the
\* decoded view of the response, or the thrown Error
DecodeRawChunk(dt, response, en) ==
  LET bytesPerElement == DATA_TYPE_BYTES(dt)
      expectedBytes == NumElements * bytesPerElement
  IN  IF expectedBytes # Len(response)
      THEN [ok |-> FALSE, data |-> <<>>]
      ELSE [ok |-> TRUE,
            data |-> IF en # ENDIANNESS
                     THEN ConvertEndian(response, bytesPerElement)
                     ELSE response]

\* the download function decodes the fetched buffer; postProcessRawData
\* assigns chunk.data
Decode ==
  /\ req.pc = "decode"
  /\ LET d == DecodeRawChunk(req.dataType, req.response.bytes, req.endianness)
     IN  IF d.ok
         THEN /\ chunkData' = Data(d.data)
              /\ req' = [req EXCEPT !.pc = "done"]
         ELSE /\ chunkData' = chunkData
              /\ req' = [req EXCEPT !.pc = "thrown", !.error = OtherError("Error")]
  /\ UNCHANGED <<fileTree, token, texture, classified>>
  /\ UNCHANGED <<fetchVars, layerVars, delayVars, projectionVars, counterpartVars, renderVars, callVars, messageVars, registryVars>>

\* the texture contents chosen by UncompressedVolumeChunk.setTextureData
TextureData(d, dt) ==
  IF d.present THEN d.bytes
  ELSE [p \in 1 .. NumElements * DATA_TYPE_BYTES(dt) |-> 0]

\* the downloaded chunk reaches the rendering context and is copied to the GPU
SetTextureData ==
  /\ req.pc = "done"
  /\ ~texture.present
  /\ texture' = Data(TextureData(chunkData, req.dataType))
  /\ UNCHANGED <<fileTree, req, token, chunkData, classified>>
  /\ UNCHANGED <<fetchVars, layerVars, delayVars, projectionVars, counterpartVars, renderVars, callVars, messageVars, registryVars>>

\* the caller cancels its cancellationToken while the download is running
CancelToken ==
  /\ req.pc \in {"fetchOk", "transform", "decode"}
  /\ ~token
  /\ token' = TRUE
  /\ UNCHANGED <<fileTree, req, chunkData, texture, classified>>
  /\ UNCHANGED <<fetchVars, layerVars, delayVars, projectionVars, counterpartVars, renderVars, callVars, messageVars, registryVars>>

\* the download has ended and the next one may start
Finish ==
  /\ req.pc \in {"done", "thrown"}
  /\ req' = IdleReq
  /\ token' = FALSE
  /\ chunkData' = NoData
  /\ texture' = NoData
  /\ UNCHANGED <<fileTree, classified>>
  /\ UNCHANGED <<fetchVars, layerVars, delayVars, projectionVars, counterpartVars, renderVars, callVars, messageVars, registryVars>>

\* the user loads a file into self.fileTree
LoadFile(name, b) ==
  /\ fileTree' = [fileTree EXCEPT ![name] = Data(b)]
  /\ fileTree' # fileTree
  /\ UNCHANGED <<req, token, chunkData, texture, classified>>
  /\ UNCHANGED <<fetchVars, layerVars, delayVars, projectionVars, counterpartVars, renderVars, callVars, messageVars, registryVars>>

Statuses == {400, 401, 403, 404, 429, 500, 503, 504}

\* failures of a fetch: a response with a status outside [200, 300), and a
\* rejected request (TypeError for a network or CORS failure, or another error)
Failures ==
  {[origin |-> "response", error |-> FromResponse(s)] : s \in Statuses}
    \cup {[origin |-> k, error |-> FromRequestError(OtherError(k))] :
            k \in {"TypeError", "DOMException"}}

\* a failure is classified with isNotFoundError
Classify(f) ==
  /\ classified' = [origin |-> f.origin, error |-> f.error,
                    notFound |-> IsNotFoundError(f.error)]
  /\ classified' # classified
  /\ UNCHANGED <<fileTree, req, token, chunkData, texture>>
  /\ UNCHANGED <<fetchVars, layerVars, delayVars, projectionVars, counterpartVars, renderVars, callVars, messageVars, registryVars>>

\* the error thrown by the running download is classified
ClassifyThrown ==
  /\ req.pc = "thrown"
  /\ Classify([origin |-> "download", error |-> req.error])

InitDownload ==
  /\ fileTree = [n \in FileNames |-> NoData]
  /\ req = IdleReq
  /\ token = FALSE
  /\ chunkData = NoData
  /\ texture = NoData
  /\ classified = [origin |-> "none", error |-> NoError, notFound |-> FALSE]

NextDownload ==
  \/ \E input \in Inputs, dt \in DataTypes, en \in Endiannesses :
       CancellableFetchOk(input, dt, en)
  \/ FetchOk
  \/ \E ok \in BOOLEAN : TransformResponse(ok)
  \/ Decode
  \/ SetTextureData
  \/ CancelToken
  \/ Finish
  \/ \E name \in FileNames, b \in ByteSeqs : LoadFile(name, b)
  \/ \E f \in Failures : Classify(f)
  \/ ClassifyThrown

\* ----------------------------------------------------------- pickDelay
\* Math.random() is j / RandomSteps for j in 0 .. RandomSteps - 1, and a delay
\* is kept as the number of 1 / RandomSteps parts of a millisecond
RandomValues == 0 .. RandomSteps - 1
AttemptNumbers == 0 .. maxAttempts

Min(a, b) == IF a <= b THEN a ELSE b

\* Math.min(2 ** attemptNumber * minDelayMilliseconds, maxDelayMilliseconds / 2);
\* the power is built by doubling under the cap, which gives the same minimum
\* and keeps the numbers small: min(2x, c) = min(2 * min(x, c), c)
RECURSIVE DelayBase(_)
DelayBase(attemptNumber) ==
  IF attemptNumber = 0
  THEN Min(minDelayMilliseconds, maxDelayMilliseconds \div 2)
  ELSE Min(2 * DelayBase(attemptNumber - 1), maxDelayMilliseconds \div 2)

PickDelayNoFloor(attemptNumber, j) == DelayBase(attemptNumber) * j

\* pickDelay(attemptNumber) with Math.random() = j / RandomSteps
PickDelay(attemptNumber, j) == DelayBase(attemptNumber) * (RandomSteps + j)

\* a caller picks the delay before attempt attemptNumber + 1
PickDelayCall(attemptNumber, j) ==
  /\ picked' = [called |-> TRUE, attemptNumber |-> attemptNumber, random |-> j,
                delay |-> PickDelay(attemptNumber, j)]
  /\ picked' # picked
  /\ UNCHANGED <<fetchVars, layerVars, downloadVars, projectionVars, counterpartVars, renderVars, callVars, messageVars, registryVars>>

InitDelay ==
  picked = [called |-> FALSE, attemptNumber |-> 0, random |-> 0, delay |-> 0]

NextDelay ==
  \E attemptNumber \in AttemptNumbers, j \in RandomValues :
    PickDelayCall(attemptNumber, j)

\* ------------------------------------- SharedProjectionParametersBackend
\* projection parameters, told apart by one number
ProjectionValues == {1, 2, 3}

\* options.value of the constructor
InitialProjection == 1

\* the handler as it would act if oldValue were the same object as value
ProjectionParametersChangedAliased(x) ==
  /\ ppOldValue' = x.value
  /\ ppValue' = x.value
  /\ ppNotified' = Append(ppNotified, [oldValue |-> x.value, newValue |-> x.value])

\* the handler of PROJECTION_PARAMETERS_CHANGED_RPC_METHOD_ID on message x:
\* Object.assign(oldValue, value); Object.assign(value, x.value);
\* obj.changed.dispatch(oldValue, value)
ProjectionParametersChanged(x) ==
  /\ ppOldValue' = ppValue
  /\ ppValue' = x.value
  /\ ppNotified' = Append(ppNotified, [oldValue |-> ppValue, newValue |-> x.value])

\* the rendering context sends a change of the projection parameters and the
\* message is delivered
Deliver(v) ==
  /\ Len(ppNotified) < MaxMessages
  /\ ProjectionParametersChanged([value |-> v])
  /\ ppLast' = [delivered |-> TRUE, replayed |-> FALSE, value |-> v]
  /\ UNCHANGED <<fetchVars, layerVars, downloadVars, delayVars, counterpartVars, renderVars, callVars, messageVars, registryVars>>

\* the message delivered last is delivered a second time
Redeliver ==
  /\ Len(ppNotified) < MaxMessages
  /\ ppLast.delivered
  /\ ~ppLast.replayed
  /\ ProjectionParametersChanged([value |-> ppLast.value])
  /\ ppLast' = [ppLast EXCEPT !.replayed = TRUE]
  /\ UNCHANGED <<fetchVars, layerVars, downloadVars, delayVars, counterpartVars, renderVars, callVars, messageVars, registryVars>>

InitProjection ==
  /\ ppValue = InitialProjection
  /\ ppOldValue = InitialProjection
  /\ ppNotified = <<>>
  /\ ppLast = [delivered |-> FALSE, replayed |-> FALSE, value |-> InitialProjection]

NextProjection ==
  \/ \E v \in ProjectionValues : Deliver(v)
  \/ Redeliver

\* --------------------------- cross-context references to chunk sources
\* a disposal that looks at the local references alone
UnreferencedLocalOnly(local, cross) == local = 0

\* the object is disposed once it is referenced from neither context
Unreferenced(local, cross) == local = 0 /\ cross = 0

\* the frame of the actions on shared chunk sources
CounterpartFrame ==
  UNCHANGED <<fetchVars, layerVars, downloadVars, delayVars, projectionVars, renderVars, callVars, messageVars, registryVars>>

DisposeWhen(s, gone) ==
  /\ cpDisposed' = [cpDisposed EXCEPT ![s] = @ \/ gone]
  /\ cpDisposals' = [cpDisposals EXCEPT ![s] = IF gone THEN @ + 1 ELSE @]

\* serializeTransformedSource: tsource.source.addCounterpartRef() for a source
\* that goes into a SLICEVIEW_ADD_VISIBLE_LAYER message
SerializeTransformedSource(s) ==
  /\ ~cpDisposed[s]
  /\ cpLocalRefs[s] > 0
  /\ cpRefs[s] < MaxCounterpartRefs
  /\ cpNotified[s] < MaxCounterpartRefs
  /\ cpRefs' = [cpRefs EXCEPT ![s] = @ + 1]
  /\ UNCHANGED <<cpLocalRefs, cpDisposed, cpDisposals, cpNotified>>
  /\ CounterpartFrame

\* the receiving context drops one of its references; dropping the last one
\* notifies the owner
CounterpartRelease(s) ==
  /\ cpRefs[s] > 0
  /\ cpRefs' = [cpRefs EXCEPT ![s] = @ - 1]
  /\ cpNotified' = [cpNotified EXCEPT ![s] = IF cpRefs[s] = 1 THEN @ + 1 ELSE @]
  /\ DisposeWhen(s, Unreferenced(cpLocalRefs[s], cpRefs[s] - 1))
  /\ UNCHANGED cpLocalRefs
  /\ CounterpartFrame

\* a consumer in the rendering context takes a reference: source.addRef()
SourceAddRef(s) ==
  /\ ~cpDisposed[s]
  /\ cpLocalRefs[s] > 0
  /\ cpLocalRefs[s] < MaxSourceRefs
  /\ cpLocalRefs' = [cpLocalRefs EXCEPT ![s] = AddRef(@)]
  /\ UNCHANGED <<cpRefs, cpDisposed, cpDisposals, cpNotified>>
  /\ CounterpartFrame

\* a consumer in the rendering context releases its reference: source.dispose()
SourceDispose(s) ==
  /\ cpLocalRefs[s] > 0
  /\ cpLocalRefs' = [cpLocalRefs EXCEPT ![s] = DisposeRef(@)]
  /\ DisposeWhen(s, Unreferenced(cpLocalRefs[s] - 1, cpRefs[s]))
  /\ UNCHANGED <<cpRefs, cpNotified>>
  /\ CounterpartFrame

InitCounterpart ==
  /\ cpLocalRefs = [s \in Sources |-> 1]
  /\ cpRefs = [s \in Sources |-> 0]
  /\ cpDisposed = [s \in Sources |-> FALSE]
  /\ cpDisposals = [s \in Sources |-> 0]
  /\ cpNotified = [s \in Sources |-> 0]

NextCounterpart ==
  \/ \E s \in Sources : SerializeTransformedSource(s)
  \/ \E s \in Sources : CounterpartRelease(s)
  \/ \E s \in Sources : SourceAddRef(s)
  \/ \E s \in Sources : SourceDispose(s)

\* --------------------------------------------- SliceView.updateRendering
Sizes == {0, 1}

RenderFrame ==
  UNCHANGED <<fetchVars, downloadVars, delayVars, projectionVars, counterpartVars,
              callVars, messageVars,
                 registryVars>>

\* the draw calls of the loop over visibleLayerList; a layer's draw may
\* dispatch redrawNeeded, which is bound to viewChanged.dispatch
RECURSIVE DrawLayers(_, _)
DrawLayers(list, redraw) ==
  IF list = <<>> THEN <<>>
  ELSE <<Head(list)>>
         \o (IF redraw /\ Len(list) = 1 THEN <<"redrawNeeded">> ELSE <<>>)
         \o DrawLayers(Tail(list), redraw)

RenderLogDrawsFirst(flush, list, redraw) ==
  DrawLayers(list, redraw)
    \o (IF flush THEN <<"flush">> ELSE <<>>) \o <<"updateVisibleSources">>

\* the order of updateRendering after its early return: flush of the
\* debounced update, updateVisibleSources, then the draw loop
RenderLog(flush, list, redraw) ==
  (IF flush THEN <<"flush">> ELSE <<>>)
    \o <<"updateVisibleSources">> \o DrawLayers(list, redraw)

StaleAfterRenderingCleared(ran, redraw) == FALSE

\* renderingStale is set to false before the flush and the draw loop; a
\* viewChanged dispatched by either sets it again
StaleAfterRendering(ran, redraw) == ran \/ redraw

\* !this.renderingStale || !this.valid || width === 0 || height === 0
RenderingSkipped ==
  ~renderingStale \/ ~navigationValid \/ width = 0 \/ height = 0

\* updateRendering(); redraw: the draw of the last layer dispatches redrawNeeded
UpdateRendering(redraw) ==
  LET flush == updatePending
      ran == flush /\ ~sliceViewWasDisposed
      st == IF ran THEN Updated
            ELSE [visibleLayerList |-> visibleLayerList, visibleLayers |-> visibleLayers,
                  layerRefCount |-> layerRefCount, sourceRefCount |-> sourceRefCount,
                  visibleSources |-> visibleSources,
                  visibleSourcesList_ |-> visibleSourcesList_,
                  rpcSent |-> rpcSent, changed |-> FALSE]
  IN  /\ IF RenderingSkipped
         THEN /\ redraw = FALSE
              /\ lastEvent' = "skipped"
              /\ UNCHANGED <<layerVars, navigationValid, width, height, renderLog>>
         ELSE /\ ran => curUpdateGeneration < MaxUpdates
              /\ redraw => st.visibleLayerList # <<>>
              /\ curUpdateGeneration' = curUpdateGeneration + (IF ran THEN 1 ELSE 0)
              /\ updatePending' = FALSE
              /\ ApplyUpdate(st)
              /\ visibleSourcesStale' = (visibleSourcesStale \/ st.changed)
              /\ renderingStale' = StaleAfterRendering(ran, redraw)
              /\ renderLog' = RenderLog(flush, st.visibleLayerList, redraw)
              /\ lastEvent' = "drawn"
              /\ UNCHANGED <<layerState, transform, sliceViewWasDisposed,
                             navigationValid, width, height>>
      /\ RenderFrame

\* chunkQueueManager.visibleChunksChanged dispatches viewChanged
ViewChanged ==
  /\ renderingStale' = TRUE
  /\ lastEvent' = "viewChanged"
  /\ UNCHANGED <<layerState, transform, layerRefCount, sourceRefCount,
                 visibleSources, visibleSourcesList_, visibleLayers,
                 visibleLayerList, rpcSent, curUpdateGeneration, updatePending,
                 visibleSourcesStale, sliceViewWasDisposed>>
  /\ UNCHANGED <<navigationValid, width, height, renderLog>>
  /\ RenderFrame

\* the navigation state becomes valid or invalid
SetValid(b) ==
  /\ navigationValid # b
  /\ navigationValid' = b
  /\ UNCHANGED <<layerVars, width, height, renderLog, lastEvent>>
  /\ RenderFrame

\* the panel is resized
Resize(w, h) ==
  /\ <<w, h>> # <<width, height>>
  /\ width' = w
  /\ height' = h
  /\ UNCHANGED <<layerVars, navigationValid, renderLog, lastEvent>>
  /\ RenderFrame

InitRender ==
  /\ navigationValid = FALSE
  /\ width = 0
  /\ height = 0
  /\ renderLog = <<>>
  /\ lastEvent = "none"

NextRender ==
  \/ \E redraw \in BOOLEAN : UpdateRendering(redraw)
  \/ ViewChanged
  \/ \E b \in BOOLEAN : SetValid(b)
  \/ \E w \in Sizes, h \in Sizes : Resize(w, h)
  \/ \E l \in Layers : LayerReady(l)
  \/ UpdateVisibleLayersNow

\* ------------------------------- addSource / removeSource, with the calls counted
\* renderLayer.addSource(source, chunkTransform)
AddSourceCounted(l, s, chunkTransform) ==
  /\ IsSliceViewRenderLayer(l)
  /\ s \in Range(LayerSources(l))
  /\ addCalls[l][s] < MaxSourceRefs
  /\ LET v == AddSource([visibleSources |-> visibleSources[l],
                         visibleSourcesList_ |-> visibleSourcesList_[l]],
                        s, chunkTransform)
     IN  /\ visibleSources' = [visibleSources EXCEPT ![l] = v.visibleSources]
         /\ visibleSourcesList_' =
              [visibleSourcesList_ EXCEPT ![l] = v.visibleSourcesList_]
  /\ addCalls' = [addCalls EXCEPT ![l][s] = @ + 1]
  /\ UNCHANGED removeCalls
  /\ UNCHANGED <<layerState, transform, layerRefCount, sourceRefCount,
                 visibleLayers, visibleLayerList, rpcSent, curUpdateGeneration,
                 updatePending, renderingStale, visibleSourcesStale,
                 sliceViewWasDisposed>>
  /\ UNCHANGED <<fetchVars, downloadVars, delayVars, projectionVars,
                 counterpartVars, renderVars, messageVars,
                 registryVars>>

\* renderLayer.removeSource(source), called on a registered source
RemoveSourceCounted(l, s) ==
  /\ s \in DOMAIN visibleSources[l]
  /\ LET v == RemoveSourceFrom([visibleSources |-> visibleSources[l],
                                visibleSourcesList_ |-> visibleSourcesList_[l]], s)
     IN  /\ visibleSources' = [visibleSources EXCEPT ![l] = v.visibleSources]
         /\ visibleSourcesList_' =
              [visibleSourcesList_ EXCEPT ![l] = v.visibleSourcesList_]
  /\ removeCalls' = [removeCalls EXCEPT ![l][s] = @ + 1]
  /\ UNCHANGED addCalls
  /\ UNCHANGED <<layerState, transform, layerRefCount, sourceRefCount,
                 visibleLayers, visibleLayerList, rpcSent, curUpdateGeneration,
                 updatePending, renderingStale, visibleSourcesStale,
                 sliceViewWasDisposed>>
  /\ UNCHANGED <<fetchVars, downloadVars, delayVars, projectionVars,
                 counterpartVars, renderVars, messageVars,
                 registryVars>>

InitCalls ==
  /\ addCalls = [l \in Layers |-> [s \in Sources |-> 0]]
  /\ removeCalls = [l \in Layers |-> [s \in Sources |-> 0]]

NextCalls ==
  \/ \E l \in Layers, s \in Sources, c \in ChunkTransforms : AddSourceCounted(l, s, c)
  \/ \E l \in Layers, s \in Sources : RemoveSourceCounted(l, s)
  \/ \E l \in Layers : GetVisibleSourcesList(l)

\* ------------------------------ getVolumetricTransformedSources on one message list
\* a call that keeps what the list held
ClearMessagesKeeps(messages) == messages

\* messages.clearMessages()
ClearMessages(messages) == <<>>

\* getVolumetricTransformedSources(..., layer.transform.value, getSources, messages, layer)
\* on the message list of the earlier calls
GetVolumetricTransformedSourcesInto(l) ==
  /\ IsSliceViewRenderLayer(l)
  /\ \A s \in Range(LayerSources(l)) : sourceRefCount[s] < MaxSourceRefs
  /\ LET g == GetVolumetricTransformedSources(transform[l], LayerSources(l),
                                              sourceRefCount)
     IN  /\ messageList' = ClearMessages(messageList) \o g.messages
         /\ returned' = [called |-> TRUE, allSources |-> g.allSources]
         /\ sourceRefCount' = g.refs
  /\ UNCHANGED <<layerState, transform, layerRefCount, visibleSources,
                 visibleSourcesList_, visibleLayers, visibleLayerList, rpcSent,
                 curUpdateGeneration, updatePending, renderingStale,
                 visibleSourcesStale, sliceViewWasDisposed>>
  /\ UNCHANGED <<fetchVars, downloadVars, delayVars, projectionVars,
                 counterpartVars, renderVars, callVars,
                 registryVars>>

InitMessages ==
  /\ messageList = <<>>
  /\ returned = [called |-> FALSE, allSources |-> <<>>]

NextMessages ==
  \/ \E l \in Layers : GetVolumetricTransformedSourcesInto(l)
  \/ \E l \in Layers, t \in TransformValues : SetTransform(l, t)

\* ------------------------------------------- DataSourceProviderRegistry.get
\* the URLs a provider can redirect to
Targets == {"a", "b"}

\* redirectLog.size >= 10
maxRedirections == 10

\* get(options): the statements before the loop
Get(u) ==
  /\ getPc # "running"
  /\ getPc' = "running"
  /\ url' = u
  /\ redirectLog' = {}
  /\ followed' = <<>>
  /\ thrown' = "none"
  /\ UNCHANGED <<fetchVars, layerVars, downloadVars, delayVars, projectionVars, counterpartVars, renderVars, callVars, messageVars>>

\* provider.get(...) returns its promise, which get returns without awaiting
\* it, or throws something that is not a RedirectError
ProviderEnds(outcome) ==
  /\ getPc = "running"
  /\ getPc' = outcome
  /\ thrown' = IF outcome = "thrown" THEN "provider error" ELSE "none"
  /\ UNCHANGED <<url, redirectLog, followed>>
  /\ UNCHANGED <<fetchVars, layerVars, downloadVars, delayVars, projectionVars, counterpartVars, renderVars, callVars, messageVars>>

\* provider.get(...) throws RedirectError(redirect): the catch block
ProviderRedirects(redirect) ==
  /\ getPc = "running"
  /\ Len(followed) < MaxRedirects
  /\ IF redirect \in redirectLog
     THEN /\ getPc' = "thrown"
          /\ thrown' = "Layer source redirection contains loop"
          /\ UNCHANGED <<url, followed>>
     ELSE IF Cardinality(redirectLog) >= maxRedirections
     THEN /\ getPc' = "thrown"
          /\ thrown' = "Too many layer source redirections"
          /\ UNCHANGED <<url, followed>>
     ELSE /\ url' = redirect
          /\ followed' = Append(followed, redirect)
          /\ UNCHANGED <<getPc, thrown>>
  /\ UNCHANGED redirectLog
  /\ UNCHANGED <<fetchVars, layerVars, downloadVars, delayVars, projectionVars, counterpartVars, renderVars, callVars, messageVars>>

InitRegistry ==
  /\ getPc = "idle"
  /\ url = "a"
  /\ redirectLog = {}
  /\ followed = <<>>
  /\ thrown = "none"

NextRegistry ==
  \/ \E u \in Targets : Get(u)
  \/ \E outcome \in {"returned", "thrown"} : ProviderEnds(outcome)
  \/ \E redirect \in Targets : ProviderRedirects(redirect)

\* ---------------------------------------------------------- specification
InitUtil == InitDownload /\ InitDelay /\ InitProjection /\ InitCounterpart /\ InitRender /\ InitCalls /\ InitMessages /\ InitRegistry

Init == InitFetch /\ InitLayers /\ InitUtil

\* the chunk source, its fetchChunk calls and the chunk queue
Spec == Init /\ [][NextFetch]_vars

\* the slice view, its render layers and their visible sources
SpecLayers == Init /\ [][NextLayers]_vars

\* one render layer's registration of visible sources
SpecSources == Init /\ [][NextSources]_vars

\* one chunk source's fetchChunk calls and their completions
SpecRequesters == Init /\ [][NextRequesters]_vars

\* the download of one chunk and the classification of its failures
SpecDownload == Init /\ [][NextDownload]_vars

\* calls of pickDelay
SpecDelay == Init /\ [][NextDelay]_vars

\* the owning side's copy of the projection parameters and its messages
SpecProjection == Init /\ [][NextProjection]_vars

\* chunk sources shared with the owning context, and their references
SpecCounterpart == Init /\ [][NextCounterpart]_vars

\* the slice view's updateRendering and the events that make it stale
SpecRender == Init /\ [][NextRender]_vars

\* addSource and removeSource calls on the render layers, counted
SpecCalls == Init /\ [][NextCalls]_vars

\* repeated getVolumetricTransformedSources calls on one message list
SpecMessages == Init /\ [][NextMessages]_vars

\* DataSourceProviderRegistry.get and the providers' answers
SpecRegistry == Init /\ [][NextRegistry]_vars

\* ------------------------------------------------------------------ claims
Occurrences(s, x) == Cardinality({p \in 1 .. Len(s) : s[p] = x})

NewCallOn(k) ==
  \E i \in Calls : calls[i].pc # "waiting" /\ calls'[i].pc = "waiting" /\ calls'[i].key = k

\* C1 as stated: concurrent fetchChunk calls for one grid position lead to one
\* fetch, and a later call attaches a waiter instead of issuing a second
\* request: at most one request of the key is outstanding at the owning side.
C1_OneRequestPerKey ==
  \A k \in Keys : inflight[k] <= 1 /\ Cardinality(Interested(k)) <= 1

C1_Step ==
  \A k \in Keys :
    /\ inflight'[k] <= 1
    /\ Occurrences(queue', k) + inflight'[k] =
         (IF bstate'[k] \in {"QUEUED", "DOWNLOADING"} THEN 1 ELSE 0)
    /\ \A i \in Calls : calls'[i].pc = "waiting" /\ calls'[i].key = k =>
         i \in Range(IF k \in DOMAIN chunkRequesters'.map
                     THEN chunkRequesters'.map[k] ELSE <<>>)
    /\ (chunks[k] = Absent /\ chunks'[k] # Absent) =>
         \A i \in Waiting(k) :
           calls'[i].promise = "resolved" /\ calls'[i].xform = chunks'[k]

\* C1 (amended): however many fetchChunk calls wait for a grid position, each
\* with its own request message, the chunk has exactly one fetch queued or in
\* flight and never two in flight; every call is a waiter of the key's entry,
\* and the arrival of the chunk resolves all of them with that one chunk.
C1_Coalescing == [][C1_Step]_vars

C1_Witness ==
  \E k \in Keys :
    Cardinality({i \in Waiting(k) : calls[i].promise = "resolved"}) >= 2

\* C2: the fetches in flight never exceed the configured concurrency bound.
C2_BoundedConcurrency == InFlight <= ConcurrencyBound

C2_Witness ==
  /\ InFlight = ConcurrencyBound
  /\ \E p \in 1 .. Len(queue) : Eligible(p)

C3_Step ==
  \A k \in Keys : inflight'[k] > inflight[k] =>
    \A q \in 1 .. Len(queue) : Eligible(q) => tier[queue[q]] <= tier[k]

\* C3: whenever a fetch is admitted, no eligible queued request has a higher
\* tier than the admitted one; so a tier-1 request that arrives before a
\* queued tier-0 request is admitted is fetched first.
C3_PriorityAdmission == [][C3_Step]_vars

C3_Witness ==
  /\ bstate["1,0,0"] = "DOWNLOADING" /\ tier["1,0,0"] = 1
  /\ queue = <<"0,0,0">> /\ tier["0,0,0"] = 0 /\ ~backoff["0,0,0"]

C4_Step ==
  \A i \in Calls :
    /\ calls'[i].xform # calls[i].xform /\ calls'[i].xform # "none" =>
         calls'[i].xform = chunks'[calls'[i].key] /\ InMemory(calls'[i].xform)
    /\ calls'[i].promise = "resolved" => InMemory(calls'[i].xform)
    /\ calls'[i].pc = "resolved" => InMemory(calls'[i].xform)
    /\ calls[i].pc = "waiting" /\ calls'[i].pc = "resolved" =>
         calls[i].rpc = "ok" /\ calls[i].promise = "resolved"
    /\ calls[i].pc = "waiting" /\ calls[i].rpc \in {"err", "cancel"} =>
         calls'[i].pc \in {"waiting", "rejected"}

\* C4: transform is only ever invoked on a chunk that is in memory at that
\* moment, a call resolves only after that, and a call whose request failed
\* permanently or was cancelled ends rejected.
C4_ResolvesInMemory == [][C4_Step]_vars

C4_Witness ==
  /\ \E i \in Calls : calls[i].pc = "resolved" /\ calls[i].xform = "SYSTEM_MEMORY"
  /\ \E i \in Calls : calls[i].pc = "rejected"

AllowedTransition(k) ==
  \/ bstate'[k] = bstate[k]
  \/ bstate'[k] = "DISPOSED"
  \/ bstate[k] = "NONE" /\ bstate'[k] = "QUEUED"
  \/ bstate[k] = "QUEUED" /\ bstate'[k] = "DOWNLOADING"
  \/ bstate[k] = "DOWNLOADING" /\ bstate'[k] \in {"SYSTEM_MEMORY", "FAILED_PERMANENT", "QUEUED"}
  \/ bstate[k] = "SYSTEM_MEMORY" /\ bstate'[k] = "GPU_MEMORY"
  \/ bstate[k] = "DISPOSED" /\ bstate'[k] = "QUEUED" /\ NewCallOn(k)

C5_Step ==
  \A k \in Keys :
    /\ AllowedTransition(k)
    /\ chunks'[k] # Absent => chunks'[k] = bstate'[k]
    /\ chunks[k] = Absent /\ chunks'[k] # Absent =>
         bstate[k] = "DOWNLOADING" /\ chunks'[k] = "SYSTEM_MEMORY"

\* C5: a chunk's state moves only along the listed transitions; a disposed
\* chunk stays disposed until a new request creates a new Chunk object in
\* QUEUED, and the chunk object of the rendering context is created in
\* SYSTEM_MEMORY by a completed download.
C5_Lifecycle == [][C5_Step]_vars

C5_Witness ==
  \E k \in Keys :
    /\ bstate[k] = "QUEUED"
    /\ \E i \in Calls : calls[i].pc = "resolved" /\ calls[i].key = k
    /\ Waiting(k) # {}

\* C7: the source's reference count is the creator's reference plus one per
\* fetchChunk call that is waiting, and the source is disposed in the very
\* step in which the count reaches zero.
C7_RefCountBalance ==
  /\ refCount = extRefs + Cardinality({i \in Calls : calls[i].pc = "waiting"})
  /\ wasDisposed <=> refCount = 0

C7_Witness ==
  /\ wasDisposed /\ refCount = 0
  /\ \E i \in Calls : calls[i].pc = "rejected"
  /\ \E i \in Calls : calls[i].pc = "resolved" /\ calls[i].xform = "SYSTEM_MEMORY"

UpdateStep == curUpdateGeneration' # curUpdateGeneration

ReadySliceViewLayers ==
  SelectSeq(ReadyRenderLayers, LAMBDA l : IsSliceViewRenderLayer(l))

\* C6: once every consumer of the chunk sources is gone (the slice view is
\* disposed and every render layer has left the layer manager), each chunk
\* source's reference count is zero: no reference is leaked.
C6_NoLeak ==
  (sliceViewWasDisposed /\ \A l \in Layers : layerState[l] = "removed") =>
    \A s \in Sources : sourceRefCount[s] = 0

C8_Step ==
  \A l \in Layers : \A s \in DOMAIN visibleSources[l] :
    LET before == visibleSources[l][s].refCount
        gone == s \notin DOMAIN visibleSources'[l]
    IN  /\ (before = 1 /\ gone) => sourceRefCount'[s] = sourceRefCount[s] - 1
        /\ before > 1 => ~gone

\* C8: the removeSource call that brings a visible source's refCount to zero
\* removes its entry and releases the chunk-source reference in the same
\* step; with a refCount above one the source stays registered.
C8_RemoveReleases == [][C8_Step]_vars

InputsUnchanged ==
  /\ curUpdateGeneration > 0
  /\ visibleLayerList = ReadySliceViewLayers
  /\ \A l \in Range(visibleLayerList) :
       visibleLayers[l].transformGeneration = transform[l]

C9_Step ==
  (UpdateStep /\ InputsUnchanged) =>
    visibleSources' = visibleSources /\ layerRefCount' = layerRefCount

\* C9: a visible-layer update that finds the ready layers and their
\* transforms as the previous update left them changes no visible-source
\* refCount and no render layer's reference count.
C9_RepeatIsNoOp == [][C9_Step]_vars

Sent(id, l) == \E p \in 1 .. Len(rpcSent') : rpcSent'[p].id = id /\ rpcSent'[p].layerId = l

C10_Step ==
  UpdateStep =>
    /\ DOMAIN visibleLayers' = Range(visibleLayerList')
    /\ Range(visibleLayerList') =
         {l \in Layers : IsSliceViewRenderLayer(l) /\ layerState'[l] = "ready"}
    /\ \A l \in DOMAIN visibleLayers' \ DOMAIN visibleLayers :
         Sent("SLICEVIEW_ADD_VISIBLE_LAYER", l)
    /\ \A l \in DOMAIN visibleLayers \ DOMAIN visibleLayers' :
         Sent("SLICEVIEW_REMOVE_VISIBLE_LAYER", l)

\* C10: after every visible-layer update the visible-layer map holds exactly
\* the ready slice-view layers; a layer that became visible was sent as an
\* add-visible-layer message, one that is no longer visible as a
\* remove-visible-layer message.
C10_VisibleAreReady == [][C10_Step]_vars

CancelStep(i) == calls[i].rpc = "recv" /\ calls'[i].rpc = "cancel"

C11_Step ==
  \A i \in Calls :
    LET k == calls[i].key
    IN  /\ CancelStep(i) =>
             /\ bstate'[k] # "FAILED_PERMANENT"
             /\ Interested(k) = {i} =>
                  inflight'[k] = 0 /\ k \notin Range(queue')
        /\ calls[i].pc = "waiting" /\ calls[i].rpc = "cancel" =>
             calls'[i].pc \in {"waiting", "rejected"}
        /\ calls'[i].pc # "waiting" =>
             \A kk \in DOMAIN chunkRequesters'.map :
               i \notin Range(chunkRequesters'.map[kk])
        /\ calls[i].pc = "rejected" /\ (\E kk \in Keys : chunks'[kk] # chunks[kk]) =>
             calls'[i] = calls[i]

C12_Step ==
  token =>
    /\ req.pc = "fetchOk" => req'.attempts = req.attempts
    /\ req.pc = "transform" => req'.pc # "decode"

C12_CancelStopsFetch == [][C12_Step]_vars

Running == {"fetchOk", "transform", "decode"}

PcRank(pc) ==
  CASE pc = "fetchOk" -> 3
    [] pc = "transform" -> 2
    [] pc = "decode" -> 1
    [] OTHER -> 0

\* what is left of a download: the attempts not yet used, then its position
Measure(r) == (maxAttempts + 1 - r.attempts) * 4 + PcRank(r.pc)

C13_Step ==
  /\ req'.attempts <= maxAttempts
  /\ req.pc \in Running /\ req' # req =>
       Measure(req') < Measure(req) /\ Measure(req') >= 0
  /\ req.pc \in Running /\ req'.pc = "thrown" => req'.error # NoError
  /\ req.pc = "thrown" =>
       req' = req \/ (req'.pc = "idle" /\ req'.attempts = 0)

IntervalBase(n) == IF n >= 4 THEN 5000 ELSE (2 ^ n) * 500

\* C14: pickDelay(n) lies in [b, 2b] for b = min(2^n * 500, 10000 / 2); the
\* lower bound never goes down as n grows, and no delay is below 500 ms or
\* above 10000 ms.
C14_DelayBounds ==
  picked.called =>
    LET n == picked.attemptNumber
        b == IntervalBase(n)
    IN  /\ b * RandomSteps <= picked.delay
        /\ picked.delay <= 2 * b * RandomSteps
        /\ \A m \in 0 .. n : IntervalBase(m) <= b /\ DelayBase(m) <= DelayBase(n)
        /\ DelayBase(n) = b
        /\ 500 * RandomSteps <= picked.delay
        /\ picked.delay <= 10000 * RandomSteps

C14_Witness ==
  /\ picked.called
  /\ picked.attemptNumber = maxAttempts
  /\ picked.random = RandomSteps - 1
  /\ picked.delay > 5000 * RandomSteps

TransientStatuses == {429, 500, 503, 504}

\* C15 as stated: a failure is either transient (network failure, 429, 5xx)
\* or permanent (not found, access denied), and a network failure is
\* transient, never not-found.
C15_NetworkIsTransient ==
  classified.origin # "none" =>
    /\ classified.origin = "TypeError" => ~classified.notFound
    /\ classified.error.status \in TransientStatuses => ~classified.notFound
    /\ classified.error.status \in {403, 404} => classified.notFound

\* C15 (amended): isNotFoundError puts every failure in exactly one of two
\* classes: not-found, which holds a network or CORS failure (turned into
\* status 0 by fromRequestError) and the statuses 403 and 404, and the rest,
\* which holds every other status (429 and 5xx among them) and every error
\* that is not an HttpError.
C15_Classification ==
  classified.origin # "none" =>
    /\ classified.notFound \in BOOLEAN
    /\ classified.origin = "TypeError" =>
         classified.error = HttpError(0) /\ classified.notFound
    /\ classified.notFound <=>
         /\ classified.error.kind = "HttpError"
         /\ classified.error.status \in {0, 403, 404}
    /\ classified.error.status \in TransientStatuses \cup {400, 401} =>
         ~classified.notFound
    /\ classified.error.kind # "HttpError" => ~classified.notFound

C15_Witness ==
  /\ classified.origin = "TypeError"
  /\ classified.error.status = 0
  /\ classified.notFound

\* ------------------------------------------------- claims, chunk queue
C16_Step ==
  \A k \in Keys :
    /\ bstate[k] # "FAILED_PERMANENT" /\ bstate'[k] = "FAILED_PERMANENT" =>
         /\ inflight[k] > 0
         /\ \A i \in Interested(k) : calls'[i].rpc = "err"
    /\ bstate[k] = "FAILED_PERMANENT" =>
         /\ bstate'[k] \in {"FAILED_PERMANENT", "DISPOSED"}
         /\ inflight'[k] = 0
         /\ k \notin Range(queue')
         /\ \A i \in Calls :
              calls[i].pc # "waiting" /\ calls'[i].pc = "waiting" /\ calls'[i].key = k =>
                calls'[i].rpc = "err"
    /\ bstate[k] = "DISPOSED" /\ NewCallOn(k) =>
         /\ bstate'[k] = "QUEUED"
         /\ k \in Range(queue')
         /\ ~backoff'[k]
    /\ \A i \in Waiting(k) :
         calls[i].rpc = "err" =>
           \/ calls'[i].pc = "waiting" /\ calls'[i].rpc = "err"
           \/ calls'[i].pc = "rejected"

\* C16: a fetch that fails permanently leaves the chunk FAILED_PERMANENT and
\* rejects every request waiting for it; while the chunk is FAILED_PERMANENT
\* it is neither queued nor fetched and every new request for it is rejected
\* as well; a rejected request settles once, as a rejection; the chunk leaves
\* FAILED_PERMANENT only by disposal, and a request for the disposed chunk
\* queues it again, without a retry delay.
C16_PermanentFailure == [][C16_Step]_vars

C16_Witness ==
  \E k \in Keys, i, j \in Calls :
    /\ bstate[k] = "FAILED_PERMANENT"
    /\ calls[i].pc = "rejected" /\ calls[i].key = k
    /\ calls[j].pc = "waiting" /\ calls[j].key = k /\ calls[j].rpc = "err"

\* ------------------------------------------------- claims, visible layers
LayerBefore(l, m) ==
  \E p, q \in 1 .. Len(visibleLayerList) :
    p < q /\ visibleLayerList[p] = l /\ visibleLayerList[q] = m

C17_Step ==
  UpdateStep =>
    /\ visibleLayerList' = ReadySliceViewLayers
    /\ DOMAIN visibleLayers' = DOMAIN visibleLayers \cup Range(ReadySliceViewLayers)
    /\ \A l \in Range(ReadySliceViewLayers) :
         IF transform[l].error
         THEN /\ visibleLayers'[l].allSources = <<>>
              /\ visibleLayers'[l].messages = <<"transform.error">>
              /\ visibleSources'[l] = visibleSources[l]
         ELSE ~(\E s \in Range(LayerSources(l)) : ChannelExtentMismatch(transform[l], s)) =>
                /\ visibleLayers'[l].allSources = LayerSources(l)
                /\ visibleLayers'[l].messages = <<>>

Mismatching(l) ==
  /\ ~transform[l].error
  /\ \E s \in Range(LayerSources(l)) : ChannelExtentMismatch(transform[l], s)

Rendered(l) ==
  /\ ~transform[l].error
  /\ \A s \in Range(LayerSources(l)) : ~ChannelExtentMismatch(transform[l], s)

C18_Step ==
  UpdateStep =>
    /\ visibleLayerList' = ReadySliceViewLayers
    /\ \A l \in Range(ReadySliceViewLayers) :
         Mismatching(l) =>
           /\ visibleLayers'[l].allSources = <<>>
           /\ Len(visibleLayers'[l].messages) = 1
           /\ visibleSources'[l] = visibleSources[l]
    /\ \A s \in Sources :
         sourceRefCount'[s] = sourceRefCount[s] +
           Cardinality({l \in Range(ReadySliceViewLayers) :
                          Rendered(l) /\ s \in Range(LayerSources(l))})

WrongLength ==
  NumElements * DATA_TYPE_BYTES(req.dataType) # Len(req.response.bytes)

C19_Step ==
  /\ req.pc = "decode" /\ req' # req /\ WrongLength =>
       /\ req'.pc = "thrown"
       /\ req'.error.kind = "Error"
       /\ ~IsNotFoundError(req'.error)
       /\ chunkData' = chunkData
       /\ ~chunkData'.present
  /\ req.pc \in {"fetchOk", "transform"} /\ req'.pc = "thrown" =>
       req'.error.kind \in {"HttpError", "DOMException"}
  /\ req.pc = "decode" /\ req'.pc = "done" =>
       /\ chunkData'.present
       /\ Len(chunkData'.bytes) = NumElements * DATA_TYPE_BYTES(req.dataType)
  /\ req'.pc = "thrown" => ~texture'.present
  /\ ~texture.present /\ texture'.present =>
       chunkData.present /\ texture'.bytes = chunkData.bytes

ReplayStep == ~ppLast.replayed /\ ppLast'.replayed

\* C20: handling a state-change message a second time leaves the receiving
\* side as one handling left it: same value, same old value, and no further
\* notification.
C20_ReplayIdempotent ==
  [][ReplayStep =>
       /\ ppValue' = ppValue
       /\ ppOldValue' = ppOldValue
       /\ ppNotified' = ppNotified]_vars

\* ------------------------------------------- claims, shared chunk sources
C21_Step ==
  \A s \in Sources :
    /\ cpDisposed'[s] => cpRefs'[s] = 0 /\ cpLocalRefs'[s] = 0
    /\ cpRefs'[s] > 0 => ~cpDisposed'[s]
    /\ cpNotified'[s] =
         cpNotified[s] + (IF cpRefs[s] = 1 /\ cpRefs'[s] = 0 THEN 1 ELSE 0)
    /\ cpDisposals'[s] <= 1
    /\ cpDisposed[s] => cpDisposed'[s]

\* C21: a chunk source that was sent in a message is not disposed while a
\* cross-context reference to it is outstanding, whatever the local
\* references do; the step that drops the last cross-context reference, and
\* no other step, sends one notification to the owner; the object is disposed
\* at most once and stays disposed.
C21_CounterpartRefs == [][C21_Step]_vars

C21_Witness ==
  /\ cpLocalRefs["s1"] = 0 /\ cpRefs["s1"] = 1 /\ ~cpDisposed["s1"]
  /\ cpDisposed["s2"] /\ cpNotified["s2"] = 1 /\ cpDisposals["s2"] = 1

\* ------------------------------------------------- claims, chunk requests
\* call i returns at once, without having waited
EarlyReturn(i) == calls[i].pc # "waiting" /\ calls'[i] # calls[i]

C22_Step ==
  /\ \A i \in Calls :
       EarlyReturn(i) /\ calls'[i].pc # "waiting" =>
         /\ calls'[i].pc = "resolved"
         /\ chunks[calls'[i].key] # Absent /\ InMemory(chunks[calls'[i].key])
         /\ calls'[i].xform = chunks[calls'[i].key]
         /\ refCount' = refCount
         /\ chunkRequesters' = chunkRequesters
         /\ bstate' = bstate /\ queue' = queue /\ tier' = tier /\ inflight' = inflight
  /\ \A k \in Keys :
       NewCallOn(k) =>
         /\ chunks[k] = Absent \/ ~InMemory(chunks[k])
         /\ bstate[k] = "QUEUED" =>
              /\ bstate'[k] = "QUEUED"
              /\ Occurrences(queue', k) = 1
              /\ Range(queue') = Range(queue)
              /\ inflight' = inflight
              /\ \A kk \in Keys \ {k} : tier'[kk] = tier[kk]
         /\ bstate[k] = "DOWNLOADING" =>
              /\ bstate'[k] = "DOWNLOADING"
              /\ queue' = queue /\ inflight' = inflight /\ tier' = tier

\* C22: a fetchChunk call for a chunk that is resident returns the transform
\* of that chunk and changes neither the reference count nor the waiters nor
\* anything at the owning side; a call for a chunk that is queued leaves it
\* queued with one queue entry, changes only its own priority and starts no
\* fetch; a call for a chunk that is being fetched starts no second fetch.
C22_RequestIdempotent == [][C22_Step]_vars

C22_Witness ==
  \E k, kk \in Keys :
    /\ k # kk
    /\ chunks[kk] # Absent /\ InMemory(chunks[kk])
    /\ calls[2].pc = "resolved" /\ calls[2].key = kk /\ calls[2].xform = chunks[kk]
    /\ calls[1].pc = "waiting" /\ calls[1].key = k
    /\ bstate[k] = "QUEUED" /\ tier[k] = 1 /\ Occurrences(queue, k) = 1
    /\ refCount = 2

\* C23: a viewChanged event -- a chunk-ready notification, the dispatch
\* that ends an update of the visible layers, or a redrawNeeded raised
\* while updateRendering is drawing -- leaves renderingStale true, and
\* renderingStale only becomes false in an updateRendering that runs with
\* a valid view and a non-zero size and draws the layers.
RedrawRequested ==
  \E i \in 1..Len(renderLog) : renderLog[i] = "redrawNeeded"

C23_Step ==
  /\ lastEvent' = "viewChanged" => renderingStale'
  /\ curUpdateGeneration' # curUpdateGeneration => renderingStale'
  /\ (lastEvent' = "drawn" /\ RedrawRequested') => renderingStale'
  /\ (renderingStale /\ ~renderingStale') =>
       /\ lastEvent' = "drawn"
       /\ navigationValid /\ width # 0 /\ height # 0
       /\ renderLog' = RenderLog(updatePending, visibleLayerList', FALSE)

C23_StaleUntilRedrawn == [][C23_Step]_vars

C23_Witness ==
  /\ lastEvent = "drawn"
  /\ RedrawRequested
  /\ renderLog[1] = "flush"
  /\ renderingStale

\* C27: an updateRendering that finds the rendering not stale, the
\* navigation state invalid or a zero width or height draws nothing and
\* changes no state; any other updateRendering first applies the pending
\* update of the visible layers, then calls updateVisibleSources, and then
\* draws the layers of the resulting visibleLayerList, each once, in order.
DrawingStep ==
  /\ lastEvent' = "drawn"
  /\ \/ lastEvent # "drawn"
     \/ renderLog' # renderLog
     \/ renderingStale /\ ~renderingStale'

IsDraw(e) == e \in Layers

Prologue == IF updatePending THEN <<"flush", "updateVisibleSources">>
            ELSE <<"updateVisibleSources">>

C27_Step ==
  /\ (lastEvent' = "skipped" /\ lastEvent # "skipped") =>
       /\ RenderingSkipped
       /\ UNCHANGED <<layerVars, navigationValid, width, height, renderLog>>
  /\ RenderingSkipped => ~DrawingStep
  /\ DrawingStep =>
       /\ ~updatePending'
       /\ visibleLayerList' = IF updatePending /\ ~sliceViewWasDisposed
                              THEN Updated.visibleLayerList
                              ELSE visibleLayerList
       /\ Len(renderLog') >= Len(Prologue)
       /\ SubSeq(renderLog', 1, Len(Prologue)) = Prologue
       /\ SelectSeq(renderLog', IsDraw) = visibleLayerList'

C27_UpdateRendering == [][C27_Step]_vars

C27_Witness ==
  /\ lastEvent = "drawn"
  /\ Len(visibleLayerList) >= 2
  /\ renderLog = <<"flush", "updateVisibleSources">> \o visibleLayerList

\* C24: for every render layer, the list that visibleSourcesList returns
\* holds exactly the sources registered in visibleSources, each once, in
\* ascending order of the chunkToLayerTransformDet of the entry's current
\* chunkTransform.
ReturnedList(l) ==
  IF Len(visibleSourcesList_[l]) = 0 /\ DOMAIN visibleSources[l] # {}
  THEN SortedByDet(visibleSources[l])
  ELSE visibleSourcesList_[l]

C24_SortedVisibleSources ==
  \A l \in Layers :
    LET q == ReturnedList(l)
        m == visibleSources[l]
    IN  /\ Range(q) = DOMAIN m
        /\ Len(q) = Cardinality(DOMAIN m)
        /\ \A a, b \in 1 .. Len(q) : a < b =>
             m[q[a]].chunkTransform.chunkToLayerTransformDet
               <= m[q[b]].chunkTransform.chunkToLayerTransformDet

\* C26: with removeSource called only on registered sources, a source has
\* an entry in a layer's visibleSources exactly when more addSource than
\* removeSource calls were made for it, the entry's refCount is the
\* difference of the two counts, and no entry has a refCount below 1.
C26_RefCountIsBalance ==
  \A l \in Layers, s \in Sources :
    /\ s \in DOMAIN visibleSources[l] <=> addCalls[l][s] > removeCalls[l][s]
    /\ s \in DOMAIN visibleSources[l] =>
         /\ visibleSources[l][s].refCount = addCalls[l][s] - removeCalls[l][s]
         /\ visibleSources[l][s].refCount >= 1

C26_Witness ==
  /\ "s1" \in DOMAIN visibleSources["image2"]
  /\ visibleSources["image2"]["s1"].refCount = 2
  /\ removeCalls["image2"]["s1"] >= 1
  /\ "s2" \notin DOMAIN visibleSources["image2"]
  /\ removeCalls["image2"]["s2"] >= 1

\* C25: chunkRequesters has an entry for a key exactly when a fetchChunk
\* call for that key is pending; the entry lists the waiters of the pending
\* calls, each once, in the order they registered; a settling call takes
\* out its own waiter and no other; and chunkRequesters is undefined
\* exactly when no call is pending.
RequestersMatchPending ==
  /\ \A k \in DOMAIN chunkRequesters.map :
       LET entry == chunkRequesters.map[k]
       IN  /\ entry # <<>>
           /\ \A p \in 1 .. Len(entry) :
                /\ calls[entry[p]].pc = "waiting"
                /\ calls[entry[p]].key = k
                /\ \A q \in 1 .. Len(entry) : entry[q] = entry[p] => q = p
  /\ \A i \in Calls :
       calls[i].pc = "waiting" =>
         /\ calls[i].key \in DOMAIN chunkRequesters.map
         /\ \E p \in 1 .. Len(chunkRequesters.map[calls[i].key]) :
              chunkRequesters.map[calls[i].key][p] = i
  /\ chunkRequesters.defined <=> \E i \in Calls : calls[i].pc = "waiting"

\* a call was registered or has settled
PendingChanged ==
  \E i \in Calls : (calls'[i].pc = "waiting") # (calls[i].pc = "waiting")

C25_Step ==
  (chunkRequesters' # chunkRequesters \/ PendingChanged) =>
  /\ RequestersMatchPending'
  /\ \A k \in Keys :
       LET old == EntryOf(k)
           new == EntryOf(k)'
           kept == SelectSeq(old, LAMBDA i : calls'[i].pc = "waiting")
       IN  /\ Len(new) >= Len(kept)
           /\ SubSeq(new, 1, Len(kept)) = kept
           /\ \A p \in Len(kept) + 1 .. Len(new) : calls[new[p]].pc # "waiting"

C25_RequestersTrackPending == [][C25_Step]_vars

C25_Witness ==
  /\ EntryOf("0,0,0") = <<2, 1>>
  /\ calls[1].pc = "waiting" /\ calls[2].pc = "waiting"

\* C28: after every call of getVolumetricTransformedSources the message
\* list it was given holds exactly one message when the call failed (it
\* returned no sources) and none when it succeeded, whatever the list held
\* from earlier calls.
C28_MessagesDoNotAccumulate ==
  returned.called =>
    Len(messageList) = IF returned.allSources = <<>> THEN 1 ELSE 0

C28_Witness ==
  /\ returned.called
  /\ messageList = <<"transform.error">>
  /\ \E s \in Sources : sourceRefCount[s] > 0

\* C29: a get call follows no redirect to a target it has already followed
\* (it ends with the "contains loop" error instead) and follows no more
\* than the permitted number of redirects (it ends with the "too many"
\* error instead), so that it cannot follow redirects forever.
C29_Step ==
  followed' # followed /\ followed' # <<>> =>
    /\ followed'[Len(followed')] \notin Range(followed)
    /\ Len(followed') <= maxRedirections

C29_RedirectsEnd == [][C29_Step]_vars

\* C30: each projection-parameters-changed message that is applied leaves
\* the mirrored value equal to the value sent and oldValue equal to the
\* value held just before, and dispatches changed exactly once, with
\* (oldValue, value); the mirror therefore equals the latest value sent
\* once the messages have been applied in sending order.
C30_Step ==
  ppNotified' # ppNotified =>
    /\ ppValue' = ppLast'.value
    /\ ppOldValue' = ppValue
    /\ ppNotified' = Append(ppNotified, [oldValue |-> ppOldValue', newValue |-> ppValue'])

C30_MirrorFollowsMessages == [][C30_Step]_vars

C30_Witness ==
  /\ Len(ppNotified) >= 2
  /\ ppOldValue # InitialProjection
  /\ ppValue # ppOldValue
  /\ ppValue = ppLast.value

====
